---- MODULE Spec2Model ----
(***************************************************************************)
(* Model of the locafoto helper scripts:                                   *)
(*   scripts/create_sample_lfs.py        create_lfs_file                   *)
(*   scripts/loco_helper.py              create-key / encrypt commands     *)
(*   scripts/create_sample_locaphoto.py  create_locaphoto_bundle, main     *)
(* Bytes are naturals 0..255, byte strings are sequences of bytes, text    *)
(* strings are sequences of Unicode code points.  The three scripts are    *)
(* separate programs; prog says which one a behaviour runs.                *)
(***************************************************************************)
EXTENDS Integers, Sequences, FiniteSets, Bags, TLC

VARIABLES prog, pc, err, lfs, key_file, input, is_dir, out, todo, key_name,
          key_data, written, bundle_call, sample_files

vars == <<prog, pc, err, lfs, key_file, input, is_dir, out, todo, key_name,
          key_data, written, bundle_call, sample_files>>

(***************************************************************************)
(* Program constants.                                                      *)
(***************************************************************************)
HeaderLen == 128
NonceLen == 12
TagLen == 16
KeyLen == 32

(***************************************************************************)
(* Bounds of the model.                                                    *)
(***************************************************************************)
MaxLen == 2
NumDraws == 2

(***************************************************************************)
(* Byte-string helpers.                                                    *)
(***************************************************************************)
Rep(b, n) == [i \in 1..n |-> b]

\* the sum of the bytes of s: s[i] + 1 copies of each i make a bag of
\* Sum(s) + Len(s) elements
Sum(s) == BagCardinality([i \in 1..Len(s) |-> s[i] + 1]) - Len(s)

RECURSIVE Xor(_, _)
Xor(a, b) ==
    IF a = 0 THEN b
    ELSE IF b = 0 THEN a
    ELSE (((a % 2) + (b % 2)) % 2) + 2 * Xor(a \div 2, b \div 2)

RECURSIVE Pow2(_)
Pow2(k) == IF k = 0 THEN 1 ELSE 2 * Pow2(k - 1)

\* Python slices s[:-n] and s[-n:]
DropLast(s, n) == IF Len(s) <= n THEN <<>> ELSE SubSeq(s, 1, Len(s) - n)

TakeLast(s, n) == IF Len(s) <= n THEN s ELSE SubSeq(s, Len(s) - n + 1, Len(s))

(***************************************************************************)
(* str.encode('utf-8') and bytes.decode('utf-8').                          *)
(***************************************************************************)
IsSurrogate(cp) == cp >= 55296 /\ cp <= 57343

Utf8Char(cp) ==
    IF cp < 128 THEN <<cp>>
    ELSE IF cp < 2048 THEN <<192 + (cp \div 64), 128 + (cp % 64)>>
    ELSE IF cp < 65536
         THEN <<224 + (cp \div 4096), 128 + ((cp \div 64) % 64), 128 + (cp % 64)>>
    ELSE <<240 + (cp \div 262144), 128 + ((cp \div 4096) % 64),
           128 + ((cp \div 64) % 64), 128 + (cp % 64)>>

RECURSIVE Utf8Range(_, _, _)
Utf8Range(s, lo, hi) ==
    IF lo > hi THEN <<>>
    ELSE IF lo = hi THEN Utf8Char(s[lo])
    ELSE LET mid == (lo + hi) \div 2
         IN  Utf8Range(s, lo, mid) \o Utf8Range(s, mid + 1, hi)

Utf8Encodable(s) == \A i \in 1..Len(s) : ~IsSurrogate(s[i])

Utf8Encode(s) == Utf8Range(s, 1, Len(s))

\* the code point of the character whose first byte is b[i]
Utf8CharAt(b, i) ==
    IF b[i] < 128 THEN b[i]
    ELSE IF b[i] < 224 THEN (b[i] - 192) * 64 + (b[i + 1] - 128)
    ELSE IF b[i] < 240
         THEN (b[i] - 224) * 4096 + (b[i + 1] - 128) * 64 + (b[i + 2] - 128)
    ELSE (b[i] - 240) * 262144 + (b[i + 1] - 128) * 4096
         + (b[i + 2] - 128) * 64 + (b[i + 3] - 128)

Utf8Decode(b) ==
    LET leads == SelectSeq([i \in 1..Len(b) |-> i],
                           LAMBDA i : b[i] < 128 \/ b[i] >= 192)
    IN  [k \in 1..Len(leads) |-> Utf8CharAt(b, leads[k])]

(***************************************************************************)
(* secrets.token_bytes(n): the outcomes of the random source the model     *)
(* distinguishes, NumDraws of them per length.                             *)
(***************************************************************************)
Draw(d, n) == [i \in 1..n |-> (37 * d + 11 * i) % 256]

token_bytes(n) == {Draw(d, n) : d \in 1..NumDraws}

(***************************************************************************)
(* cryptography's AESGCM, abstracted: a stream cipher keyed by (key,       *)
(* nonce) and a 16-byte tag over key, nonce and ciphertext that changes    *)
(* with every single-bit change of the nonce or the ciphertext.            *)
(***************************************************************************)
AESGCM_key_ok(key) == Len(key) \in {16, 24, 32}

\* the key stream of (key, nonce) has seed KeyStreamSeed(key, nonce)
KeyStreamSeed(key, nonce) == (Sum(key) + 3 * Sum(nonce) + 1) % 256

XorKeyStream(seed, data) ==
    [i \in 1..Len(data) |-> Xor(data[i], (seed + 7 * i) % 256)]

GcmTagSeed(key, nonce, ct) ==
    (5 * Sum(key) + Sum(nonce) + Sum(ct) + Len(ct)) % 256

GcmTagOf(seed) == [j \in 1..TagLen |-> (seed + 17 * j) % 256]

GcmTag(key, nonce, ct) == GcmTagOf(GcmTagSeed(key, nonce, ct))

AESGCM_encrypt(key, nonce, data) ==
    LET ct == XorKeyStream(KeyStreamSeed(key, nonce), data)
    IN  ct \o GcmTag(key, nonce, ct)

AuthenticationFailure == [error |-> "AuthenticationFailure"]

AESGCM_decrypt(key, nonce, ct, tag) ==
    IF tag = GcmTag(key, nonce, ct)
    THEN [plaintext |-> XorKeyStream(KeyStreamSeed(key, nonce), ct)]
    ELSE AuthenticationFailure

(***************************************************************************)
(* create_sample_lfs.py: create_lfs_file.  nonce is the value that         *)
(* secrets.token_bytes(12) returned inside the call.                       *)
(***************************************************************************)
Raise(kind) == [ok |-> FALSE, error |-> kind]

Return(value) == [ok |-> TRUE, value |-> value]

LfsHeader(key_name_bytes) ==
    key_name_bytes \o Rep(0, HeaderLen - Len(key_name_bytes))

\* slips in the assembly: the tag written before the nonce; the tag left out
LfsAssemble_TagBeforeNonce(header, ciphertext, nonce, tag) ==
    header \o ciphertext \o tag \o nonce

LfsAssemble_TagOmitted(header, ciphertext, nonce, tag) ==
    header \o ciphertext \o nonce

LfsAssemble(header, ciphertext, nonce, tag) ==
    header \o ciphertext \o nonce \o tag

\* slip: the limit applied to the characters of the name, not its bytes
create_lfs_file_CountsCharacters(name, encryption_key, image_data, nonce) ==
    IF ~AESGCM_key_ok(encryption_key) THEN Raise("InvalidKey")
    ELSE LET encrypted_result == AESGCM_encrypt(encryption_key, nonce, image_data)
             ciphertext == DropLast(encrypted_result, 16)
             tag == TakeLast(encrypted_result, 16)
         IN  IF ~Utf8Encodable(name) THEN Raise("UnicodeEncodeError")
             ELSE IF Len(name) > 128 THEN Raise("KeyNameTooLong")
             ELSE Return(LfsAssemble(LfsHeader(Utf8Encode(name)),
                                     ciphertext, nonce, tag))

create_lfs_file(name, encryption_key, image_data, nonce) ==
    IF ~AESGCM_key_ok(encryption_key) THEN Raise("InvalidKey")
    ELSE LET encrypted_result == AESGCM_encrypt(encryption_key, nonce, image_data)
             ciphertext == DropLast(encrypted_result, 16)
             tag == TakeLast(encrypted_result, 16)
         IN  IF ~Utf8Encodable(name) THEN Raise("UnicodeEncodeError")
             ELSE LET key_name_bytes == Utf8Encode(name)
                  IN  IF Len(key_name_bytes) > 128 THEN Raise("KeyNameTooLong")
                      ELSE Return(LfsAssemble(LfsHeader(key_name_bytes),
                                              ciphertext, nonce, tag))

(***************************************************************************)
(* LFS decode, section 4.2 of the specification (the decoder is not part   *)
(* of these scripts).  keyResolver maps key identifiers to [found, key].   *)
(***************************************************************************)
StripTrailingZeros(b) ==
    LET last == CHOOSE i \in 0..Len(b) :
                    /\ i = 0 \/ b[i] # 0
                    /\ \A j \in (i + 1)..Len(b) : b[j] = 0
    IN  SubSeq(b, 1, last)

LfsKeyIdentifier(container) ==
    Utf8Decode(StripTrailingZeros(SubSeq(container, 1, HeaderLen)))

LfsCiphertext(container) ==
    SubSeq(container, HeaderLen + 1, Len(container) - NonceLen - TagLen)

LfsNonce(container) ==
    SubSeq(container, Len(container) - NonceLen - TagLen + 1, Len(container) - TagLen)

LfsTag(container) ==
    SubSeq(container, Len(container) - TagLen + 1, Len(container))

LfsDecode(container, keyResolver) ==
    IF Len(container) < HeaderLen + NonceLen + TagLen
    THEN [error |-> "MalformedContainer"]
    ELSE LET resolved == keyResolver[LfsKeyIdentifier(container)]
         IN  IF ~resolved.found THEN [error |-> "UnknownKey"]
             ELSE AESGCM_decrypt(resolved.key, LfsNonce(container),
                                 LfsCiphertext(container), LfsTag(container))

(***************************************************************************)
(* Inputs the model draws from.                                            *)
(***************************************************************************)
Data(s, n) == [i \in 1..n |-> (40 * s + i) % 256]

Datas == {Data(s, n) : s \in {1, 2}, n \in 0..MaxLen}

Key(s, n) == [i \in 1..n |-> (53 * s + 7 * i) % 256]

\* "SampleKey"
KEY_NAME == <<83, 97, 109, 112, 108, 101, 75, 101, 121>>

\* key names: empty, the sample name, ASCII names of 128 and 129 bytes,
\* 2-, 3- and 4-byte characters at 128 and 129 bytes, names with a NUL,
\* and a lone surrogate
KeyNames ==
    { <<>>, KEY_NAME,
      Rep(65, HeaderLen), Rep(65, HeaderLen + 1),
      Rep(233, HeaderLen \div 2), Rep(233, HeaderLen \div 2) \o <<65>>,
      Rep(8364, (HeaderLen \div 3) + 1), Rep(128512, HeaderLen \div 4),
      <<65, 0>>, <<65, 0, 66>>, <<55357>> }

EncryptionKeys == {Key(1, KeyLen), Key(2, KeyLen), Key(1, 16), Key(1, KeyLen - 1)}

NoCall == [called |-> FALSE]

(***************************************************************************)
(* A caller's calls of create_lfs_file (create_sample_lfs.py): a first     *)
(* call, and the same call made a second time.  lfs is the log of calls.   *)
(***************************************************************************)
LfsCall(name, k, image_data, nonce) ==
    [key_name |-> name, encryption_key |-> k, image_data |-> image_data,
     nonce |-> nonce, result |-> create_lfs_file(name, k, image_data, nonce)]

CreateLfsFile ==
    /\ prog = "create_sample_lfs"
    /\ lfs = <<>>
    /\ \E name \in KeyNames, k \in EncryptionKeys, image_data \in Datas,
          nonce \in token_bytes(12) :
          lfs' = <<LfsCall(name, k, image_data, nonce)>>
    /\ UNCHANGED <<prog, pc, err, key_file, input, is_dir, out, todo, key_name,
                   key_data, written, bundle_call, sample_files>>

CreateLfsFileAgain ==
    /\ prog = "create_sample_lfs"
    /\ Len(lfs) = 1
    /\ \E nonce \in token_bytes(12) :
          lfs' = Append(lfs, LfsCall(lfs[1].key_name, lfs[1].encryption_key,
                                     lfs[1].image_data, nonce))
    /\ UNCHANGED <<prog, pc, err, key_file, input, is_dir, out, todo, key_name,
                   key_data, written, bundle_call, sample_files>>

(***************************************************************************)
(* base64.b64encode(...).decode('utf-8') and base64.b64decode: base64      *)
(* text is a sequence of the code points of its characters.                *)
(***************************************************************************)
B64Char(v) ==
    IF v < 26 THEN 65 + v
    ELSE IF v < 52 THEN 97 + (v - 26)
    ELSE IF v < 62 THEN 48 + (v - 52)
    ELSE IF v = 62 THEN 43 ELSE 47

B64Pad == 61

B64Value(c) ==
    IF c >= 65 /\ c <= 90 THEN c - 65
    ELSE IF c >= 97 /\ c <= 122 THEN c - 97 + 26
    ELSE IF c >= 48 /\ c <= 57 THEN c - 48 + 52
    ELSE IF c = 43 THEN 62
    ELSE IF c = 47 THEN 63 ELSE -1

\* the k-th character (0..3) of the group that encodes bytes b[i..i+2]
B64GroupChar(b, i, k) ==
    LET b1 == b[i]
        b2 == IF i + 1 <= Len(b) THEN b[i + 1] ELSE 0
        b3 == IF i + 2 <= Len(b) THEN b[i + 2] ELSE 0
    IN  IF k = 0 THEN B64Char(b1 \div 4)
        ELSE IF k = 1 THEN B64Char((b1 % 4) * 16 + (b2 \div 16))
        ELSE IF k = 2
             THEN IF i + 1 > Len(b) THEN B64Pad
                  ELSE B64Char((b2 % 16) * 4 + (b3 \div 64))
        ELSE IF i + 2 > Len(b) THEN B64Pad ELSE B64Char(b3 % 64)

b64encode(b) ==
    [p \in 1..(4 * ((Len(b) + 2) \div 3)) |->
        B64GroupChar(b, 3 * ((p - 1) \div 4) + 1, (p - 1) % 4)]

\* the k-th byte (0..2) of the group of 6-bit values v[i..i+3]
B64GroupByte(v, i, k) ==
    IF k = 0 THEN v[i] * 4 + (v[i + 1] \div 16)
    ELSE IF k = 1 THEN (v[i + 1] % 16) * 16 + (v[i + 2] \div 4)
    ELSE (v[i + 2] % 4) * 64 + v[i + 3]

B64DecodeValues(v) ==
    LET rest == Len(v) % 4
        n == 3 * (Len(v) \div 4) + (IF rest = 0 THEN 0 ELSE rest - 1)
    IN  [p \in 1..n |-> B64GroupByte(v, 4 * ((p - 1) \div 3) + 1, (p - 1) % 3)]

\* non-alphabet characters are discarded; the data characters left must
\* fill whole groups of four together with the padding
b64decode(text) ==
    LET values == SelectSeq([i \in 1..Len(text) |-> B64Value(text[i])],
                            LAMBDA v : v >= 0)
        pads == Len(SelectSeq(text, LAMBDA c : c = B64Pad))
        rest == Len(values) % 4
    IN  IF rest = 1 \/ (rest = 2 /\ pads < 2) \/ (rest = 3 /\ pads < 1)
        THEN Raise("binascii.Error")
        ELSE Return(B64DecodeValues(values))

(***************************************************************************)
(* loco_helper.py.  A key file is the JSON object it holds: a function     *)
(* from field names to text.                                               *)
(***************************************************************************)
NoFile == [absent |-> TRUE]

create_key_file(name, token) ==
    [name |-> name, keyData |-> Utf8Decode(b64encode(token))]

load_key_from_file(shared_key) ==
    IF "keyData" \notin DOMAIN shared_key THEN Raise("KeyError")
    ELSE LET decoded == b64decode(shared_key.keyData)
         IN  IF ~decoded.ok THEN decoded
             ELSE IF "name" \notin DOMAIN shared_key THEN Raise("KeyError")
             ELSE Return([key_name |-> shared_key.name, key_data |-> decoded.value])

\* slips: the tag not split off the ciphertext; one nonce made once and
\* used by every call instead of the call's own draw
encrypt_single_file_TagNotSplit(name, k, file_data, nonce) ==
    IF ~AESGCM_key_ok(k) THEN Raise("InvalidKey")
    ELSE LET encrypted_result == AESGCM_encrypt(k, nonce, file_data)
             tag == TakeLast(encrypted_result, 16)
         IN  IF ~Utf8Encodable(name) THEN Raise("UnicodeEncodeError")
             ELSE LET key_name_bytes == Utf8Encode(name)
                  IN  IF Len(key_name_bytes) > 128 THEN Raise("KeyNameTooLong")
                      ELSE Return(LfsAssemble(LfsHeader(key_name_bytes),
                                              encrypted_result, nonce, tag))

encrypt_single_file_FixedNonce(name, k, file_data, nonce) ==
    IF ~AESGCM_key_ok(k) THEN Raise("InvalidKey")
    ELSE LET encrypted_result == AESGCM_encrypt(k, Draw(1, 12), file_data)
             ciphertext == DropLast(encrypted_result, 16)
             tag == TakeLast(encrypted_result, 16)
         IN  IF ~Utf8Encodable(name) THEN Raise("UnicodeEncodeError")
             ELSE LET key_name_bytes == Utf8Encode(name)
                  IN  IF Len(key_name_bytes) > 128 THEN Raise("KeyNameTooLong")
                      ELSE Return(LfsAssemble(LfsHeader(key_name_bytes),
                                              ciphertext, Draw(1, 12), tag))

encrypt_single_file(name, k, file_data, nonce) ==
    IF ~AESGCM_key_ok(k) THEN Raise("InvalidKey")
    ELSE LET encrypted_result == AESGCM_encrypt(k, nonce, file_data)
             ciphertext == DropLast(encrypted_result, 16)
             tag == TakeLast(encrypted_result, 16)
         IN  IF ~Utf8Encodable(name) THEN Raise("UnicodeEncodeError")
             ELSE LET key_name_bytes == Utf8Encode(name)
                  IN  IF Len(key_name_bytes) > 128 THEN Raise("KeyNameTooLong")
                      ELSE Return(LfsAssemble(LfsHeader(key_name_bytes),
                                              ciphertext, nonce, tag))

\* file names: the code points of their characters
Dot == 46

RECURSIVE RFindDot(_, _)
RFindDot(name, i) ==
    IF i = 0 THEN 0 ELSE IF name[i] = Dot THEN i ELSE RFindDot(name, i - 1)

\* pathlib: PurePath.suffix and PurePath.stem
PathSuffix(name) ==
    LET i == RFindDot(name, Len(name))
    IN  IF 1 < i /\ i < Len(name) THEN SubSeq(name, i, Len(name)) ELSE <<>>

PathStem(name) ==
    LET i == RFindDot(name, Len(name))
    IN  IF 1 < i /\ i < Len(name) THEN SubSeq(name, 1, i - 1) ELSE name

\* os.path.splitext(p)[0]: leading dots do not start an extension
SplitextRoot(name) ==
    LET i == RFindDot(name, Len(name))
    IN  IF i > 0 /\ (\E j \in 1..(i - 1) : name[j] # Dot)
        THEN SubSeq(name, 1, i - 1) ELSE name

Lower(text) ==
    [i \in 1..Len(text) |->
        IF text[i] >= 65 /\ text[i] <= 90 THEN text[i] + 32 ELSE text[i]]

\* {'.jpg', '.jpeg', '.png', '.heic', '.heif', '.webp'}
image_extensions ==
    { <<46, 106, 112, 103>>, <<46, 106, 112, 101, 103>>, <<46, 112, 110, 103>>,
      <<46, 104, 101, 105, 99>>, <<46, 104, 101, 105, 102>>,
      <<46, 119, 101, 98, 112>> }

\* ".lfs"
LfsSuffix == <<46, 108, 102, 115>>

ImageFiles(dir) == {f \in DOMAIN dir : Lower(PathSuffix(f)) \in image_extensions}

DirOutputPath(img_file) == PathStem(img_file) \o LfsSuffix

SingleOutputPath(input_path) == SplitextRoot(input_path) \o LfsSuffix

WriteFile(dir, path, data) ==
    [f \in DOMAIN dir \cup {path} |-> IF f = path THEN data ELSE dir[f]]

(***************************************************************************)
(* The environment of a loco_helper.py run: the key file named on the      *)
(* command line and the input path (one file, or a directory).             *)
(***************************************************************************)
\* "k"
ShortName == <<107>>

KeyFiles ==
    { create_key_file(ShortName, Key(1, KeyLen)),
      create_key_file(Rep(233, HeaderLen \div 2), Key(1, KeyLen)),
      create_key_file(Rep(65, HeaderLen + 1), Key(1, KeyLen)),
      create_key_file(ShortName, Key(1, 16)),
      create_key_file(ShortName, Key(1, KeyLen - 1)),
      [name |-> ShortName],
      [keyData |-> Utf8Decode(b64encode(Key(1, KeyLen)))],
      [name |-> ShortName,
       keyData |-> DropLast(Utf8Decode(b64encode(Key(1, KeyLen))), 1)] }

\* a.jpg, a.PNG, b.jpg and the hidden file .png
DirNames ==
    { <<97, 46, 106, 112, 103>>, <<97, 46, 80, 78, 71>>,
      <<98, 46, 106, 112, 103>>, <<46, 112, 110, 103>> }

DirDatas == {Data(1, 0), Data(1, MaxLen)}

\* the hidden file is never read: one content for it is enough
Directories ==
    {d \in UNION {[S -> DirDatas] : S \in SUBSET DirNames} :
        \A f \in DOMAIN d \ ImageFiles(d) : d[f] = Data(1, 0)}

SingleFiles == {[f \in {n} |-> d] : n \in {<<97, 46, 106, 112, 103>>}, d \in Datas}

\* the key files a directory is encrypted with: a good one, one whose key
\* name is too long, one without keyData
BatchKeyFiles ==
    { create_key_file(ShortName, Key(1, KeyLen)),
      create_key_file(Rep(65, HeaderLen + 1), Key(1, KeyLen)),
      [name |-> ShortName] }

Environments ==
    {[key_file |-> kf, is_dir |-> FALSE, input |-> f] :
        kf \in KeyFiles \cup {NoFile}, f \in SingleFiles}
    \cup {[key_file |-> kf, is_dir |-> TRUE, input |-> d] :
        kf \in BatchKeyFiles, d \in Directories}

(***************************************************************************)
(* loco_helper.py __main__: the create-key command.                        *)
(***************************************************************************)
\* the command is run where the key file does not exist yet
CmdCreateKey ==
    /\ prog = "loco_helper"
    /\ pc = "start"
    /\ key_file = NoFile
    /\ \E name \in {ShortName}, token \in token_bytes(32) :
          key_file' = create_key_file(name, token)
    /\ UNCHANGED <<prog, pc, err, lfs, input, is_dir, out, todo, key_name,
                   key_data, written, bundle_call, sample_files>>

(***************************************************************************)
(* loco_helper.py __main__: the encrypt command, up to the first file of   *)
(* a directory (encrypt_file), or the whole run for a single input file.   *)
(***************************************************************************)
Fail(position, kind) ==
    /\ pc' = position
    /\ err' = kind
    /\ UNCHANGED <<out, todo, written>>

EncryptOne(name, k, img_file, output_path, nonce, rest) ==
    LET file_data == input[img_file]
        result == encrypt_single_file(name, k, file_data, nonce)
    IN  IF ~result.ok THEN Fail("raised", result.error)
        ELSE /\ out' = WriteFile(out, output_path, result.value)
             /\ written' = Append(written,
                    [input_file |-> img_file, output_path |-> output_path,
                     file_data |-> file_data, nonce |-> nonce,
                     lfs_data |-> result.value])
             /\ todo' = rest
             /\ pc' = IF rest = {} THEN "done" ELSE "loop"
             /\ err' = err

CmdEncrypt ==
    /\ prog = "loco_helper"
    /\ pc = "start"
    /\ IF key_file = NoFile
       THEN Fail("exit", "Key file not found") /\ UNCHANGED <<key_name, key_data>>
       ELSE LET loaded == load_key_from_file(key_file)
            IN  IF ~loaded.ok
                THEN Fail("raised", loaded.error) /\ UNCHANGED <<key_name, key_data>>
                ELSE /\ key_name' = loaded.value.key_name
                     /\ key_data' = loaded.value.key_data
                     /\ IF is_dir
                        THEN IF ImageFiles(input) = {}
                             THEN Fail("exit", "No image files found")
                             ELSE /\ todo' = ImageFiles(input)
                                  /\ pc' = "loop"
                                  /\ UNCHANGED <<err, out, written>>
                        ELSE \E f \in DOMAIN input, nonce \in token_bytes(12) :
                                EncryptOne(loaded.value.key_name, loaded.value.key_data,
                                           f, SingleOutputPath(f), nonce, {})
    /\ UNCHANGED <<prog, lfs, key_file, input, is_dir, bundle_call, sample_files>>

(***************************************************************************)
(* encrypt_file: one iteration of the loop over the directory's images.    *)
(***************************************************************************)
EncryptNext ==
    /\ prog = "loco_helper"
    /\ pc = "loop"
    /\ \E img_file \in todo, nonce \in token_bytes(12) :
          EncryptOne(key_name, key_data, img_file, DirOutputPath(img_file),
                     nonce, todo \ {img_file})
    /\ UNCHANGED <<prog, lfs, key_file, input, is_dir, key_name, key_data,
                   bundle_call, sample_files>>

(***************************************************************************)
(* create_sample_locaphoto.py.  RSA with OAEP padding is abstracted: a     *)
(* key pair is a number, the wrapped key carries the padding seed, the     *)
(* key masked under (pair, seed), and a check value that only the          *)
(* matching private key reproduces.                                        *)
(***************************************************************************)
RsaKeyPairs == {1, 2}

RsaMask(pair, seed, i) == (91 * pair + 13 * seed + 3 * i) % 256

RsaCheck(pair, seed, message) == (Sum(message) + 7 * pair + seed) % 256

encrypt_symmetric_key(symmetric_key, public_key, seed) ==
    <<seed>>
    \o [i \in 1..Len(symmetric_key) |->
           (symmetric_key[i] + RsaMask(public_key, seed, i)) % 256]
    \o <<RsaCheck(public_key, seed, symmetric_key)>>

\* the private-key operation of section 4.3 of the specification
RsaOaepDecrypt(private_key, wrapped) ==
    IF Len(wrapped) < 2 THEN Raise("KeyUnwrapFailure")
    ELSE LET seed == wrapped[1]
             message == [i \in 1..(Len(wrapped) - 2) |->
                            (wrapped[i + 1] + 256 - RsaMask(private_key, seed, i)) % 256]
         IN  IF wrapped[Len(wrapped)] = RsaCheck(private_key, seed, message)
             THEN Return(message)
             ELSE Raise("KeyUnwrapFailure")

\* the 1x1 PNG of create_sample_image
create_sample_image ==
    << 137, 80, 78, 71, 13, 10, 26, 10, 0, 0, 0, 13, 73, 72, 68, 82, 0, 0, 0,
       1, 0, 0, 0, 1, 8, 2, 0, 0, 0, 144, 119, 83, 110, 0, 0, 0, 12, 73, 68,
       65, 84, 120, 1, 99, 96, 0, 2, 0, 0, 5, 0, 1, 167, 114, 253, 14, 0, 0,
       0, 0, 73, 69, 78, 68, 174, 66, 96, 130 >>

\* slip: the tag taken as the last 12 bytes, the nonce's length
encrypt_photo_TagOfTwelve(image_data, symmetric_key, iv) ==
    LET encrypted_result == AESGCM_encrypt(symmetric_key, iv, image_data)
    IN  [ciphertext |-> DropLast(encrypted_result, 16), iv |-> iv,
         auth_tag |-> TakeLast(encrypted_result, 12)]

encrypt_photo(image_data, symmetric_key, iv) ==
    LET encrypted_result == AESGCM_encrypt(symmetric_key, iv, image_data)
    IN  [ciphertext |-> DropLast(encrypted_result, 16), iv |-> iv,
         auth_tag |-> TakeLast(encrypted_result, 16)]

B64Text(b) == Utf8Decode(b64encode(b))

\* rnd: what the random source and the clock give inside the call
\* (iv, the OAEP seed, the uuid4 and utcnow)
create_locaphoto_bundle(image_data, symmetric_key, public_key, rnd) ==
    IF ~AESGCM_key_ok(symmetric_key) THEN Raise("InvalidKey")
    ELSE LET photo == encrypt_photo(image_data, symmetric_key, rnd.iv)
             encrypted_key == encrypt_symmetric_key(symmetric_key, public_key, rnd.seed)
         IN  Return([version |-> "1.0",
                     photo |-> [id |-> rnd.uuid,
                                encryptedData |-> B64Text(photo.ciphertext),
                                encryptedKey |-> B64Text(encrypted_key),
                                iv |-> B64Text(photo.iv),
                                authTag |-> B64Text(photo.auth_tag)],
                     metadata |-> [originalSize |-> Len(image_data),
                                   captureDate |-> rnd.now,
                                   width |-> 1, height |-> 1, format |-> "PNG"]])

\* bytes.hex()
HexDigit(n) == IF n < 10 THEN 48 + n ELSE 87 + n

Hex(b) ==
    [p \in 1..(2 * Len(b)) |->
        IF p % 2 = 1 THEN HexDigit(b[(p + 1) \div 2] \div 16)
        ELSE HexDigit(b[p \div 2] % 16)]

(***************************************************************************)
(* Bundle decode, section 4.3 of the specification (the decoder is not     *)
(* part of these scripts).                                                 *)
(***************************************************************************)
BundleDecode(bundle, private_key) ==
    IF bundle.version # "1.0" THEN [error |-> "UnsupportedVersion"]
    ELSE LET wrapped == b64decode(bundle.photo.encryptedKey)
             data == b64decode(bundle.photo.encryptedData)
             iv == b64decode(bundle.photo.iv)
             tag == b64decode(bundle.photo.authTag)
         IN  IF ~(wrapped.ok /\ data.ok /\ iv.ok /\ tag.ok)
             THEN [error |-> "MalformedBundle"]
             ELSE LET unwrapped == RsaOaepDecrypt(private_key, wrapped.value)
                  IN  IF ~unwrapped.ok THEN [error |-> "KeyUnwrapFailure"]
                      ELSE LET opened == AESGCM_decrypt(unwrapped.value, iv.value,
                                                        data.value, tag.value)
                           IN  IF opened = AuthenticationFailure THEN opened
                               ELSE IF Len(opened.plaintext) # bundle.metadata.originalSize
                               THEN [error |-> "SizeMismatch"]
                               ELSE opened

(***************************************************************************)
(* A caller's call of create_locaphoto_bundle, and the script's main.      *)
(***************************************************************************)
SymmetricKeys == {Key(1, KeyLen), Key(2, KeyLen), Key(1, KeyLen - 1)}

Randomness ==
    [iv : token_bytes(12), seed : 1..NumDraws, uuid : 1..NumDraws, now : {1, 2}]

BundleCall(image_data, symmetric_key, public_key, rnd) ==
    [called |-> TRUE, image_data |-> image_data, symmetric_key |-> symmetric_key,
     public_key |-> public_key, rnd |-> rnd,
     result |-> create_locaphoto_bundle(image_data, symmetric_key, public_key, rnd)]

CreateLocaphotoBundle ==
    /\ prog = "create_sample_locaphoto"
    /\ pc = "start"
    /\ \E image_data \in Datas, symmetric_key \in SymmetricKeys,
          public_key \in RsaKeyPairs, rnd \in Randomness :
          bundle_call' = BundleCall(image_data, symmetric_key, public_key, rnd)
    /\ pc' = "called"
    /\ UNCHANGED <<prog, err, lfs, key_file, input, is_dir, out, todo, key_name,
                   key_data, written, sample_files>>

TextFile(text) == [kind |-> "text", text |-> text]

JsonFile(value) == [kind |-> "json", value |-> value]

PemFile(private_key) == [kind |-> "pem", private_key |-> private_key]

LocaphotoMain ==
    /\ prog = "create_sample_locaphoto"
    /\ pc = "start"
    /\ \E symmetric_key \in token_bytes(32), pair \in RsaKeyPairs, rnd \in Randomness :
          LET call == BundleCall(create_sample_image, symmetric_key, pair, rnd)
          IN  /\ bundle_call' = call
              /\ sample_files' =
                    [path \in {"sample_files/sample_photo.locaphoto",
                               "sample_files/sample_private_key.pem",
                               "sample_files/sample_symmetric_key.txt"} |->
                        IF path = "sample_files/sample_photo.locaphoto"
                        THEN JsonFile(call.result.value)
                        ELSE IF path = "sample_files/sample_private_key.pem"
                        THEN PemFile(pair)
                        ELSE TextFile(Hex(symmetric_key))]
    /\ pc' = "done"
    /\ UNCHANGED <<prog, err, lfs, key_file, input, is_dir, out, todo, key_name,
                   key_data, written>>

(***************************************************************************)
(* Specification.                                                          *)
(***************************************************************************)
Init ==
    /\ prog \in {"create_sample_lfs", "loco_helper", "create_sample_locaphoto"}
    /\ pc = "start"
    /\ err = "none"
    /\ lfs = <<>>
    /\ \E env \in (IF prog = "loco_helper" THEN Environments
                   ELSE {[key_file |-> NoFile, is_dir |-> FALSE, input |-> <<>>]}) :
          /\ key_file = env.key_file
          /\ is_dir = env.is_dir
          /\ input = env.input
    /\ out = <<>>
    /\ todo = {}
    /\ key_name = <<>>
    /\ key_data = <<>>
    /\ written = <<>>
    /\ bundle_call = NoCall
    /\ sample_files = <<>>

Next == CreateLfsFile \/ CreateLfsFileAgain \/ CmdCreateKey \/ CmdEncrypt \/ EncryptNext
        \/ CreateLocaphotoBundle \/ LocaphotoMain

Spec == Init /\ [][Next]_vars

(***************************************************************************)
(* The LFS encodes a state records: the calls of create_lfs_file that      *)
(* returned a container, and the containers encrypt_single_file wrote.     *)
(***************************************************************************)
Encode(name, k, data, nonce, lfs_data) ==
    [name |-> name, key |-> k, data |-> data, nonce |-> nonce, lfs_data |-> lfs_data]

LfsEncodes ==
    {Encode(lfs[i].key_name, lfs[i].encryption_key, lfs[i].image_data,
            lfs[i].nonce, lfs[i].result.value) :
        i \in {j \in 1..Len(lfs) : lfs[j].result.ok}}

FileEncodes ==
    {Encode(key_name, key_data, written[i].file_data, written[i].nonce,
            written[i].lfs_data) : i \in 1..Len(written)}

Encodes == LfsEncodes \cup FileEncodes

ResolveTo(k) == [found |-> TRUE, key |-> k]

\* a resolver that returns k for the identifier the container names
DecodeWith(container, k) ==
    LfsDecode(container, [ident \in {LfsKeyIdentifier(container)} |-> ResolveTo(k)])

FlipBit(container, pos, bit) ==
    [container EXCEPT ![pos] = Xor(container[pos], Pow2(bit))]

NameBytes(name) == Len(Utf8Encode(name))

\* the run of loco_helper.py got past load_key_from_file
KeyLoaded ==
    /\ prog = "loco_helper"
    /\ pc # "start"
    /\ ~(pc = "exit" /\ err = "Key file not found")
    /\ ~(pc = "raised" /\ err \in {"KeyError", "binascii.Error"})

(***************************************************************************)
(* C1: every container produced by create_lfs_file and encrypt_single_file *)
(* is header || ciphertext || nonce || tag: the header is the key name's   *)
(* UTF-8 bytes followed by zeros up to 128 bytes, the ciphertext is as     *)
(* long as the plaintext, the nonce has 12 bytes and the tag 16, so the    *)
(* length is 128 + len(P) + 12 + 16 and at least 156; and every call with  *)
(* a key name of at most 128 bytes and a key AES-GCM accepts produces one. *)
(***************************************************************************)
C1_ContainerLayout ==
    /\ \A e \in Encodes :
          LET c == e.lfs_data
              nb == Utf8Encode(e.name)
              n == Len(e.data)
              ct == XorKeyStream(KeyStreamSeed(e.key, e.nonce), e.data)
          IN  /\ Len(nb) <= 128
              /\ Len(c) = 128 + n + 12 + 16
              /\ Len(c) >= 156
              /\ SubSeq(c, 1, Len(nb)) = nb
              /\ \A i \in (Len(nb) + 1)..128 : c[i] = 0
              /\ SubSeq(c, 129, 128 + n) = ct
              /\ Len(e.nonce) = 12
              /\ SubSeq(c, 129 + n, 140 + n) = e.nonce
              /\ SubSeq(c, 141 + n, 156 + n) = GcmTag(e.key, e.nonce, ct)
    /\ \A i \in 1..Len(lfs) :
          (/\ Utf8Encodable(lfs[i].key_name)
           /\ NameBytes(lfs[i].key_name) <= 128
           /\ AESGCM_key_ok(lfs[i].encryption_key)) => lfs[i].result.ok
    /\ (KeyLoaded /\ Utf8Encodable(key_name) /\ NameBytes(key_name) <= 128
        /\ AESGCM_key_ok(key_data)) => pc # "raised"

C1_Witness ==
    /\ \E e \in LfsEncodes : e.data = <<>> /\ Len(e.lfs_data) = 156
    /\ \E e \in LfsEncodes : NameBytes(e.name) = 128 /\ Len(e.name) < 128

(***************************************************************************)
(* C2: decoding a produced container with a resolver that returns the      *)
(* 32-byte key it was encoded under yields exactly the plaintext.          *)
(***************************************************************************)
C2_RoundTrip ==
    \A e \in Encodes :
        Len(e.key) = KeyLen => DecodeWith(e.lfs_data, e.key) = [plaintext |-> e.data]

C2_Witness ==
    \E e \in LfsEncodes :
        /\ Len(e.key) = KeyLen
        /\ Len(e.data) = MaxLen
        /\ NameBytes(e.name) = 128
        /\ DecodeWith(e.lfs_data, e.key) = [plaintext |-> e.data]

(***************************************************************************)
(* C3: with a key AES-GCM accepts, a key name of exactly 128 UTF-8 bytes   *)
(* encodes, and a key name of 129 bytes or more fails with KeyNameTooLong  *)
(* and produces no container; the limit counts bytes, not characters.      *)
(***************************************************************************)
C3_KeyNameBoundary ==
    /\ \A i \in 1..Len(lfs) :
          LET call == lfs[i]
          IN  (AESGCM_key_ok(call.encryption_key) /\ Utf8Encodable(call.key_name)) =>
                 IF NameBytes(call.key_name) <= 128
                 THEN call.result.ok
                 ELSE call.result = Raise("KeyNameTooLong")
    /\ (KeyLoaded /\ AESGCM_key_ok(key_data) /\ Utf8Encodable(key_name)) =>
          IF NameBytes(key_name) <= 128
          THEN pc # "raised"
          ELSE /\ out = <<>>
               /\ written = <<>>
               /\ pc \in {"loop", "exit", "raised"}
               /\ pc = "raised" => err = "KeyNameTooLong"

C3_Witness ==
    \E i \in 1..Len(lfs) :
        /\ NameBytes(lfs[i].key_name) = 129
        /\ Len(lfs[i].key_name) < 128
        /\ lfs[i].result = Raise("KeyNameTooLong")

(***************************************************************************)
(* C4 as claimed: no two containers produced under one key carry the same  *)
(* nonce, and two encodes of the same plaintext under one key have         *)
(* different nonces and different ciphertexts.                             *)
(***************************************************************************)
C4_NonceNeverRepeats ==
    /\ \A i, j \in 1..Len(written) :
          i # j =>
             /\ LfsNonce(written[i].lfs_data) # LfsNonce(written[j].lfs_data)
             /\ written[i].file_data = written[j].file_data =>
                   LfsCiphertext(written[i].lfs_data) # LfsCiphertext(written[j].lfs_data)
    /\ \A i, j \in 1..Len(lfs) :
          (i # j /\ lfs[i].result.ok /\ lfs[j].result.ok) =>
             /\ LfsNonce(lfs[i].result.value) # LfsNonce(lfs[j].result.value)
             /\ LfsCiphertext(lfs[i].result.value) # LfsCiphertext(lfs[j].result.value)

(***************************************************************************)
(* C4 as amended: each encode draws its own 12-byte nonce from the random  *)
(* source inside the call and the container carries exactly that draw;     *)
(* two encodes of the same plaintext under the same key name and key give  *)
(* the same container exactly when their draws are equal.                  *)
(***************************************************************************)
C4_OwnNoncePerCall ==
    /\ \A e \in Encodes :
          /\ e.nonce \in token_bytes(12)
          /\ LfsNonce(e.lfs_data) = e.nonce
    /\ \A e1, e2 \in Encodes :
          (e1.name = e2.name /\ e1.key = e2.key /\ e1.data = e2.data) =>
             (e1.nonce = e2.nonce <=> e1.lfs_data = e2.lfs_data)

\* two files of one batch with the same (empty) contents: different draws,
\* different containers, the same (empty) ciphertext
C4_Witness ==
    \E i, j \in 1..Len(written) :
        /\ i # j
        /\ written[i].file_data = written[j].file_data
        /\ written[i].nonce # written[j].nonce
        /\ LfsNonce(written[i].lfs_data) # LfsNonce(written[j].lfs_data)
        /\ written[i].lfs_data # written[j].lfs_data
        /\ LfsCiphertext(written[i].lfs_data) = LfsCiphertext(written[j].lfs_data)

(***************************************************************************)
(* C5: flipping any single bit of the ciphertext, nonce or tag region of a *)
(* container that encrypt_single_file wrote makes decode with the correct  *)
(* key fail with AuthenticationFailure.                                    *)
(***************************************************************************)
LastWritten == {written[i] : i \in {Len(written)} \ {0}}

C5_TamperDetection ==
    \A w \in LastWritten :
        Len(key_data) = KeyLen =>
           \A pos \in (HeaderLen + 1)..Len(w.lfs_data), bit \in 0..7 :
               DecodeWith(FlipBit(w.lfs_data, pos, bit), key_data) = AuthenticationFailure

C5_Witness ==
    \E w \in LastWritten :
        /\ Len(key_data) = KeyLen
        /\ w.file_data # <<>>
        /\ DecodeWith(w.lfs_data, key_data) = [plaintext |-> w.file_data]
        /\ DecodeWith(FlipBit(w.lfs_data, HeaderLen + 1, 0), key_data) = AuthenticationFailure
        /\ DecodeWith(FlipBit(w.lfs_data, Len(w.lfs_data), 7), key_data) = AuthenticationFailure

(***************************************************************************)
(* C6 as claimed: a key file whose keyData does not decode to exactly 32   *)
(* bytes, or that lacks name or keyData, makes load_key_from_file fail, so *)
(* no such key reaches the LFS encode.                                     *)
(***************************************************************************)
KeyFileWellFormed(kf) ==
    /\ "name" \in DOMAIN kf
    /\ "keyData" \in DOMAIN kf
    /\ b64decode(kf.keyData).ok
    /\ Len(b64decode(kf.keyData).value) = KeyLen

C6_MalformedKeyFileRejected ==
    (prog = "loco_helper" /\ pc # "start" /\ key_file # NoFile
     /\ ~KeyFileWellFormed(key_file)) =>
        /\ pc = "raised"
        /\ err \in {"KeyError", "binascii.Error"}
        /\ key_data = <<>>
        /\ written = <<>>

(***************************************************************************)
(* C7: the bundle create_locaphoto_bundle returns has version "1.0" and    *)
(* metadata.originalSize = len(P), and decoding it with the matching       *)
(* private key yields exactly P.                                           *)
(***************************************************************************)
C7_BundleRoundTrip ==
    (bundle_call.called /\ bundle_call.result.ok) =>
        LET bundle == bundle_call.result.value
        IN  /\ bundle.version = "1.0"
            /\ bundle.metadata.originalSize = Len(bundle_call.image_data)
            /\ BundleDecode(bundle, bundle_call.public_key)
                  = [plaintext |-> bundle_call.image_data]

C7_Witness ==
    /\ pc = "done"
    /\ bundle_call.called
    /\ bundle_call.image_data = create_sample_image
    /\ BundleDecode(sample_files["sample_files/sample_photo.locaphoto"].value,
                    bundle_call.public_key) = [plaintext |-> create_sample_image]

(***************************************************************************)
(* C8 as claimed: after the bundle is made its symmetric key exists only   *)
(* wrapped, as photo.encryptedKey: no file holds it in the clear.          *)
(***************************************************************************)
C8_KeyNotPersisted ==
    (prog = "create_sample_locaphoto" /\ pc = "done") =>
        \A path \in DOMAIN sample_files :
            sample_files[path].kind = "text" =>
                sample_files[path].text # Hex(bundle_call.symmetric_key)

(***************************************************************************)
(* C9 as claimed: the first 128 bytes of a container, with the trailing    *)
(* zero padding stripped, are exactly the key name it was encoded with.    *)
(***************************************************************************)
C9_KeyNameRecovered ==
    \A e \in Encodes : LfsKeyIdentifier(e.lfs_data) = e.name

(***************************************************************************)
(* C10 as claimed: when encrypt_file returns from a directory, every image *)
(* file has its own .lfs output holding the container of its contents, and *)
(* two input files never share an output path.                             *)
(***************************************************************************)
C10_OneOutputPerImage ==
    (prog = "loco_helper" /\ is_dir /\ pc = "done") =>
        /\ \A f, g \in ImageFiles(input) :
              f # g => DirOutputPath(f) # DirOutputPath(g)
        /\ \A f \in ImageFiles(input) :
              /\ DirOutputPath(f) \in DOMAIN out
              /\ DecodeWith(out[DirOutputPath(f)], key_data) = [plaintext |-> input[f]]

====
